---- MODULE Spec2Model ----
(***************************************************************************)
(* Bulk submission and job lifecycle of the chess analysis backend.        *)
(*                                                                         *)
(*   processBulkAnalysis  (analysis.service.ts)  downloads each file,      *)
(*       splits it into games, resolves the player's colour, creates one   *)
(*       Analysis document per resolvable game and enqueues it.            *)
(*   processAnalysis      (worker.service.ts)    loads one document,       *)
(*       guards on PENDING, saves PROCESSING, calls the model, saves       *)
(*       COMPLETED or FAILED.                                              *)
(*                                                                         *)
(* Every `await` of the source is a suspension point: one action of the    *)
(* model runs the synchronous code between two awaits.  Texts are          *)
(* sequences of one-character strings; a PGN text is a sequence of tokens  *)
(* (newline, blank, header tag, move text).                                *)
(***************************************************************************)
EXTENDS Integers, Sequences, FiniteSets, TLC

(***************************************************************************)
(* Bounds of the model.                                                    *)
(***************************************************************************)
MaxCalls == 2
MaxWorkers == 2

Calls == 1..MaxCalls
Workers == 1..MaxWorkers

(***************************************************************************)
(* Strings as sequences of characters.                                     *)
(***************************************************************************)
UpperCase == {"A", "B", "C", "D", "N", "W", "L", "H", "I", "T", "E", "K"}

lowerOf ==
    [ch \in UpperCase |->
        CASE ch = "A" -> "a" [] ch = "B" -> "b" [] ch = "C" -> "c"
          [] ch = "D" -> "d" [] ch = "N" -> "n" [] ch = "W" -> "w"
          [] ch = "L" -> "l" [] ch = "H" -> "h" [] ch = "I" -> "i"
          [] ch = "T" -> "t" [] ch = "E" -> "e" [] ch = "K" -> "k"]

\* String.prototype.toLowerCase
RECURSIVE toLowerCase(_)
toLowerCase(s) ==
    IF s = << >> THEN << >>
    ELSE <<IF Head(s) \in UpperCase THEN lowerOf[Head(s)] ELSE Head(s)>>
            \o toLowerCase(Tail(s))

IsSpaceChar(ch) == ch = " "

RECURSIVE trimStart(_)
trimStart(s) ==
    IF s # << >> /\ IsSpaceChar(Head(s)) THEN trimStart(Tail(s)) ELSE s

RECURSIVE trimEnd(_)
trimEnd(s) ==
    IF s # << >> /\ IsSpaceChar(s[Len(s)])
    THEN trimEnd(SubSeq(s, 1, Len(s) - 1)) ELSE s

\* String.prototype.trim
trim(s) == trimEnd(trimStart(s))

\* String.prototype.includes: t occurs in s as a contiguous substring
includes(s, t) ==
    \E i \in 1..(Len(s) - Len(t) + 1) : SubSeq(s, i, i + Len(t) - 1) = t

(***************************************************************************)
(* PGN texts: sequences of tokens.                                         *)
(*   k = "nl"  a newline            k = "sp"  other white space            *)
(*   k = "tag" a header  [name "v"] k = "mv"  move text (holds "1.")       *)
(***************************************************************************)
Tok(k, name, v) == [k |-> k, name |-> name, v |-> v]
NL == Tok("nl", << >>, << >>)
SP == Tok("sp", << >>, << >>)
MV == Tok("mv", << >>, << >>)
Tag(name, v) == Tok("tag", name, v)

IsWs(t) == t.k \in {"nl", "sp"}

RECURSIVE trimStartTok(_)
trimStartTok(s) ==
    IF s # << >> /\ IsWs(Head(s)) THEN trimStartTok(Tail(s)) ELSE s

RECURSIVE trimEndTok(_)
trimEndTok(s) ==
    IF s # << >> /\ IsWs(s[Len(s)])
    THEN trimEndTok(SubSeq(s, 1, Len(s) - 1)) ELSE s

trimTok(s) == trimEndTok(trimStartTok(s))

sWhite == <<"W", "h", "i", "t", "e">>
sBlack == <<"B", "l", "a", "c", "k">>
sResult == <<"R", "e", "s", "u", "l", "t">>
sUnknown == <<"U", "n", "k", "n", "o", "w", "n">>
sStar == <<"*">>

\* getHeader: the value of the first tag matching /\[name\s+"([^"]*)"\]/i
\* as {value}, or {} (undefined) when there is none
RECURSIVE getHeader(_, _)
getHeader(pgn, name) ==
    IF pgn = << >> THEN {}
    ELSE IF Head(pgn).k = "tag" /\ toLowerCase(Head(pgn).name) = toLowerCase(name)
         THEN {Head(pgn).v}
         ELSE getHeader(Tail(pgn), name)

orUndefined(val, dflt) ==
    IF val = {} THEN dflt ELSE CHOOSE v \in val : TRUE

\* value || dflt : undefined and the empty string are falsy
OrDefault(val, dflt) ==
    IF val = {} \/ val = {<< >>} THEN dflt ELSE CHOOSE v \in val : TRUE

parseHeaders(pgn) ==
    [white  |-> OrDefault(getHeader(pgn, sWhite), sUnknown),
     black  |-> OrDefault(getHeader(pgn, sBlack), sUnknown),
     result |-> OrDefault(getHeader(pgn, sResult), sStar)]

\* End of the match of /\n\s*\n(?=\[)/ that starts at position i, or 0
RECURSIVE RunEnd(_, _)
RunEnd(s, i) ==
    IF i < Len(s) /\ IsWs(s[i + 1]) THEN RunEnd(s, i + 1) ELSE i

MatchEndAnyBlankLine(s, i) ==
    IF s[i].k # "nl" THEN 0
    ELSE LET j == RunEnd(s, i)
         IN  IF j > i /\ s[j].k = "nl" THEN j ELSE 0

MatchEnd(s, i) ==
    IF s[i].k # "nl" THEN 0
    ELSE LET j == RunEnd(s, i)
         IN  IF j > i /\ s[j].k = "nl" /\ j < Len(s) /\ s[j + 1].k = "tag"
             THEN j ELSE 0

\* String.prototype.split(/\n\s*\n(?=\[)/)
RECURSIVE splitFrom(_, _, _)
splitFrom(s, start, i) ==
    IF i > Len(s) THEN <<SubSeq(s, start, Len(s))>>
    ELSE IF MatchEnd(s, i) > 0
         THEN <<SubSeq(s, start, i - 1)>>
                 \o splitFrom(s, MatchEnd(s, i) + 1, MatchEnd(s, i) + 1)
         ELSE splitFrom(s, start, i + 1)

RECURSIVE toGames(_)
toGames(pieces) ==
    IF pieces = << >> THEN << >>
    ELSE LET trimmed == trimTok(Head(pieces))
         IN  IF Len(trimmed) = 0 THEN toGames(Tail(pieces))
             ELSE <<[pgn |-> trimmed, metadata |-> parseHeaders(trimmed)]>>
                     \o toGames(Tail(pieces))

splitPgn(pgnContent) == toGames(splitFrom(trimTok(pgnContent), 1, 1))

\* part_003:129-136  a header tag and a numbered move
isValidPgn(pgn) ==
    /\ \E k \in 1..Len(pgn) : pgn[k].k = "tag"
    /\ \E k \in 1..Len(pgn) : pgn[k].k = "mv"

(***************************************************************************)
(* determinePlayerColor                                                    *)
(***************************************************************************)
determinePlayerColorOrThrow(metadata, playerName) ==
    LET normalizedName == trim(toLowerCase(playerName))
        white == trim(toLowerCase(metadata.white))
        black == trim(toLowerCase(metadata.black))
    IN  IF includes(white, normalizedName) \/ includes(normalizedName, white)
        THEN "white"
        ELSE IF includes(black, normalizedName) \/ includes(normalizedName, black)
             THEN "black"
             ELSE "throw"

determinePlayerColorBlackFirst(metadata, playerName) ==
    LET normalizedName == trim(toLowerCase(playerName))
        white == trim(toLowerCase(metadata.white))
        black == trim(toLowerCase(metadata.black))
    IN  IF includes(black, normalizedName) \/ includes(normalizedName, black)
        THEN "black"
        ELSE IF includes(white, normalizedName) \/ includes(normalizedName, white)
             THEN "white"
             ELSE "null"

determinePlayerColor(metadata, playerName) ==
    LET normalizedName == trim(toLowerCase(playerName))
        white == trim(toLowerCase(metadata.white))
        black == trim(toLowerCase(metadata.black))
    IN  IF includes(white, normalizedName) \/ includes(normalizedName, white)
        THEN "white"
        ELSE IF includes(black, normalizedName) \/ includes(normalizedName, black)
             THEN "black"
             ELSE "null"

(***************************************************************************)
(* Object storage and the requests of the environment.                     *)
(***************************************************************************)
sAnn == <<"A", "n", "n">>
sBob == <<"B", "o", "b">>
sCy == <<"C", "y">>
sDee == <<"D", "e", "e">>

\* a stored-file reference gs://bucket/path
Url(bucket, path) == [bucket |-> bucket, path |-> path]
U1 == Url("b", "f1")
U2 == Url("b", "f2")
UBad == Url("b", "")

\* f1 holds two games, f2 a game and a header block without moves
File1 ==
    <<Tag(sWhite, sAnn), NL, Tag(sBlack, sBob), NL, NL, MV, NL, SP, NL,
      Tag(sWhite, sCy), NL, Tag(toLowerCase(sBlack), <<"A", "N", "N", " ", "K">>),
      NL, NL, MV, NL>>
File2 ==
    <<Tag(sWhite, sCy), NL, Tag(sBlack, sBob \o <<" ">> \o sDee), NL, NL, MV,
      NL, NL, Tag(sWhite, sBob), NL, Tag(sBlack, sCy)>>

Storage == [f1 |-> File1, f2 |-> File2]

\* The clients of the API: u1 sends a valid token, the others send none.
Clients == {"u1", "anonA", "anonB"}
Authenticated == {"u1"}

NoVal == "none"

\* optionalAuth: req.user of a request of the client, NoVal when it has none
reqUser(client) == IF client \in Authenticated THEN client ELSE NoVal

\* analysis.service.ts:344, 414, 555  req.user?.id || "guest"
userIdOf(user) == IF user = NoVal THEN "guest" ELSE user

Request(urls, client, playerName) ==
    [urls |-> urls, client |-> client, playerName |-> playerName]

Requests ==
    {Request(<<U1, U2>>, "u1", sAnn),
     Request(<<U2, U1>>, "anonA", <<" ", "b", "o", "b">>),
     Request(<<U1, UBad>>, "anonB", sAnn)}

(***************************************************************************)
(* State.                                                                  *)
(***************************************************************************)
VARIABLES
    useMockQueue,   \* process.env.USE_MOCK_QUEUE === "true"
    jobs,           \* the Analysis collection: analysis_id -> document
    calls,          \* the processBulkAnalysis invocations
    workers,        \* the processAnalysis invocations
    origin,         \* history: analysis_id -> the call, file and game it is of
    trace,          \* history: per call, its create and enqueue requests
    budget,         \* the invocations the environment still makes
    probe           \* a single application of one of the pure functions

vars == <<useMockQueue, jobs, calls, workers, origin, trace, budget, probe>>

\* The runs explored: up to MaxCalls interleaved submissions, or one
\* submission with up to MaxWorkers interleaved worker invocations.
Scenarios ==
    {[calls |-> MaxCalls, workers |-> 0], [calls |-> 1, workers |-> MaxWorkers]}

\* uuidv4(): the n-th value drawn by call c; no two draws are equal
uuidv4(c, n) == <<c, n>>
UnknownId == uuidv4(0, 0)
NoDoc ==
    [status |-> NoVal, result |-> NoVal, error |-> NoVal, completed_at |-> NoVal]

IdleCall ==
    [pc |-> "idle", urls |-> << >>, client |-> NoVal, userId |-> NoVal,
     playerName |-> << >>,
     batchId |-> UnknownId, analysisIds |-> << >>, skippedGames |-> << >>,
     fi |-> 0, games |-> << >>, gi |-> 0, analysisId |-> UnknownId,
     uuids |-> 0, response |-> {}, failed |-> NoVal]

NoProbe == [fn |-> NoVal]

IdleWorker ==
    [pc |-> "idle", analysisId |-> UnknownId, doc |-> NoDoc, dirty |-> {},
     loaded |-> NoVal, saves |-> 0, modelCalls |-> 0, via |-> NoVal]

Init ==
    /\ useMockQueue \in BOOLEAN
    /\ jobs = << >>
    /\ calls = [c \in Calls |-> IdleCall]
    /\ workers = [w \in Workers |-> IdleWorker]
    /\ origin = << >>
    /\ trace = [c \in Calls |-> << >>]
    /\ budget \in Scenarios
    /\ probe = NoProbe

(***************************************************************************)
(* processBulkAnalysis                                                     *)
(***************************************************************************)
\* analysis.service.ts:63-67
skipEntry(game, playerName) ==
    [white |-> game.metadata.white, black |-> game.metadata.black,
     reason |-> <<"not found", playerName>>]

dropSkip(skippedGames, game, playerName) == skippedGames

pushSkip(skippedGames, game, playerName) ==
    Append(skippedGames, skipEntry(game, playerName))

pushIdShared(analysisIds, analysisId) ==
    Append(calls[1].analysisIds, analysisId)

unshiftId(analysisIds, analysisId) == <<analysisId>> \o analysisIds

\* analysis.service.ts:89
pushId(analysisIds, analysisId) == Append(analysisIds, analysisId)

isUndefined(playerColor) == playerColor = "undefined"

\* analysis.service.ts:59  if (!playerColor)
notFound(playerColor) == playerColor = "null"

newAnalysisOwnBatch(cr, game, playerColor) ==
    [analysis_id |-> cr.analysisId, user_id |-> cr.userId,
     batch_id |-> cr.analysisId, status |-> "PENDING", pgn |-> game.pgn,
     gcs_url |-> cr.urls[cr.fi], player_name |-> cr.playerName,
     player_color |-> playerColor, metadata |-> game.metadata,
     result |-> NoVal, error |-> NoVal, completed_at |-> NoVal]

\* analysis.service.ts:74-84  the document handed to Analysis.create
newAnalysis(cr, game, playerColor) ==
    [analysis_id |-> cr.analysisId, user_id |-> cr.userId,
     batch_id |-> cr.batchId, status |-> "PENDING", pgn |-> game.pgn,
     gcs_url |-> cr.urls[cr.fi], player_name |-> cr.playerName,
     player_color |-> playerColor, metadata |-> game.metadata,
     result |-> NoVal, error |-> NoVal, completed_at |-> NoVal]

\* analysis.model.ts:80-83  timestamps: created_at is set when the document
\* is inserted; the time is the number of documents inserted so far
created(doc, now) ==
    [f \in DOMAIN doc \cup {"created_at"} |->
        IF f = "created_at" THEN now ELSE doc[f]]

enqueueBatch(cr) == cr.batchId

\* analysis.service.ts:87  the id handed to queueService.enqueue
enqueueArg(cr) == cr.analysisId

\* analysis.service.ts:97-102
bulkResponse(cr) ==
    [batch_id |-> cr.batchId, analysis_ids |-> cr.analysisIds,
     total_games |-> Len(cr.analysisIds),
     skipped_games |->
        IF Len(cr.skippedGames) > 0 THEN {cr.skippedGames} ELSE {}]

rethrowAfterPush(cr, what) ==
    [cr EXCEPT !.pc = "threw", !.failed = what,
               !.analysisIds = Append(@, cr.analysisId)]

logOnly(cr, what) == [cr EXCEPT !.failed = what]

\* analysis.service.ts:91-94  catch (error) { logger.error(...); throw error; }
rethrow(cr, what) == [cr EXCEPT !.pc = "threw", !.failed = what]

\* The synchronous run of the two loops up to the next await: the games
\* without the player are skipped, a game with the player stops at
\* Analysis.create, the end of a file moves to the next download, the end
\* of the urls returns the response.
RECURSIVE runLoops(_)
runLoops(cr) ==
    IF cr.gi <= Len(cr.games)
    THEN LET game == cr.games[cr.gi]
             playerColor == determinePlayerColor(game.metadata, cr.playerName)
         IN  IF notFound(playerColor)
             THEN runLoops([cr EXCEPT
                     !.skippedGames = pushSkip(@, game, cr.playerName),
                     !.gi = @ + 1])
             ELSE [cr EXCEPT !.pc = "create"]
    ELSE IF cr.fi < Len(cr.urls)
         THEN [cr EXCEPT !.pc = "download", !.fi = @ + 1,
                         !.games = << >>, !.gi = 0]
         ELSE [cr EXCEPT !.pc = "returned", !.response = {bulkResponse(cr)}]

\* the call after runLoops, with the uuid of line 71 drawn when a game is
\* about to be created
Resume(c, cr) ==
    LET next == runLoops(cr)
    IN  calls' = [calls EXCEPT ![c] =
            IF next.pc = "create"
            THEN [next EXCEPT !.analysisId = uuidv4(c, next.uuids + 1),
                              !.uuids = @ + 1]
            ELSE next]

\* analysis.service.ts:43-47  the call starts: batch id drawn, first url
BulkStart(c, req) ==
    /\ calls[c].pc = "idle"
    /\ c > 1 => calls[c - 1].pc # "idle"
    /\ budget.calls > 0
    /\ calls' = [calls EXCEPT ![c] =
            [IdleCall EXCEPT !.urls = req.urls, !.client = req.client,
                             !.userId = userIdOf(reqUser(req.client)),
                             !.playerName = req.playerName,
                             !.batchId = uuidv4(c, 1), !.uuids = 1,
                             !.pc = IF Len(req.urls) = 0 THEN "returned" ELSE "download",
                             !.fi = IF Len(req.urls) = 0 THEN 0 ELSE 1,
                             !.response =
                                IF Len(req.urls) = 0
                                THEN {[batch_id |-> uuidv4(c, 1), analysis_ids |-> << >>,
                                       total_games |-> 0, skipped_games |-> {}]}
                                ELSE {}]]
    /\ budget' = [budget EXCEPT !.calls = @ - 1]
    /\ UNCHANGED <<probe, useMockQueue, jobs, workers, origin, trace>>

\* part_004:77-80  gcsUrl.match(/^gs:\/\/([^/]+)\/(.+)$/)
validGcsUrl(url) == url.bucket # "" /\ url.path # ""

\* analysis.service.ts:50-53  downloadFile resolves, splitPgn
DownloadOk(c) ==
    /\ calls[c].pc = "download"
    /\ LET cr == calls[c]
           url == cr.urls[cr.fi]
       IN  /\ validGcsUrl(url)
           /\ url.path \in DOMAIN Storage
           /\ Resume(c, [cr EXCEPT !.games = splitPgn(Storage[url.path]), !.gi = 1])
    /\ UNCHANGED <<probe, useMockQueue, jobs, workers, origin, trace, budget>>

\* analysis.service.ts:50, 91-94  downloadFile rejects (bad reference,
\* missing object, storage error)
DownloadFail(c) ==
    /\ calls[c].pc = "download"
    /\ calls' = [calls EXCEPT ![c] = rethrow(@, "download")]
    /\ UNCHANGED <<probe, useMockQueue, jobs, workers, origin, trace, budget>>

\* analysis.service.ts:74-84  Analysis.create resolves
CreateOk(c) ==
    /\ calls[c].pc = "create"
    /\ LET cr == calls[c]
           game == cr.games[cr.gi]
           doc == newAnalysis(cr, game,
                      determinePlayerColor(game.metadata, cr.playerName))
       IN  /\ jobs' = (doc.analysis_id :> created(doc, Cardinality(DOMAIN jobs) + 1))
                            @@ jobs
           /\ origin' = (doc.analysis_id :> [call |-> c, file |-> cr.fi, game |-> cr.gi])
                            @@ origin
           /\ trace' = [trace EXCEPT ![c] =
                            Append(@, [op |-> "create", id |-> doc.analysis_id, ok |-> TRUE])]
           /\ calls' = [calls EXCEPT ![c].pc = "enqueue"]
    /\ UNCHANGED <<probe, useMockQueue, workers, budget>>

\* Analysis.create rejects
CreateFail(c) ==
    /\ calls[c].pc = "create"
    /\ calls' = [calls EXCEPT ![c] = rethrow(@, "create")]
    /\ UNCHANGED <<probe, useMockQueue, jobs, workers, origin, trace, budget>>

\* analysis.service.ts:87-90  queueService.enqueue resolves
EnqueueOk(c) ==
    /\ calls[c].pc = "enqueue"
    /\ LET cr == calls[c]
       IN  /\ trace' = [trace EXCEPT ![c] =
                            Append(@, [op |-> "enqueue", id |-> enqueueArg(cr), ok |-> TRUE])]
           /\ Resume(c, [cr EXCEPT !.analysisIds = pushId(@, cr.analysisId),
                                   !.gi = @ + 1])
    /\ UNCHANGED <<probe, useMockQueue, jobs, workers, origin, budget>>

\* cloud-tasks.service.ts:60-63  createTask rejects; the mock queue's
\* enqueue (part_003:15-23) has no failing step
EnqueueFail(c) ==
    /\ calls[c].pc = "enqueue"
    /\ ~useMockQueue
    /\ trace' = [trace EXCEPT ![c] =
                    Append(@, [op |-> "enqueue", id |-> enqueueArg(calls[c]), ok |-> FALSE])]
    /\ calls' = [calls EXCEPT ![c] = rethrow(@, "enqueue")]
    /\ UNCHANGED <<probe, useMockQueue, jobs, workers, origin, budget>>

(***************************************************************************)
(* processAnalysis                                                         *)
(***************************************************************************)
\* the ids whose dispatch the queue acknowledged: the queue (the mock queue's
\* setImmediate, or Cloud Tasks with redelivery) invokes the worker for them
Acked ==
    UNION {{trace[c][i].id : i \in
                {k \in 1..Len(trace[c]) :
                    trace[c][k].op = "enqueue" /\ trace[c][k].ok}} : c \in Calls}

DocFields == {"status", "result", "error", "completed_at"}

isProcessing(status) == status = "PROCESSING"

isNotCompleted(status) == status # "COMPLETED"

\* worker.service.ts:19  the guard: only a PENDING job is processed
isPending(status) == status = "PENDING"

\* document.save(): the modified paths of the in-memory document are written
\* to the stored document
saved(stored, doc, dirty) ==
    [f \in DOMAIN stored |-> IF f \in dirty THEN doc[f] ELSE stored[f]]

\* worker.service.ts:26
setProcessing(wr) ==
    [wr EXCEPT !.doc.status = "PROCESSING", !.dirty = @ \cup {"status"}]

setResultOnly(wr) ==
    [wr EXCEPT !.doc.result = "analysis", !.doc.completed_at = "date",
               !.dirty = @ \cup {"result", "completed_at"}]

setCompletedOverPgn(wr) ==
    [wr EXCEPT !.doc.pgn = << >>, !.doc.status = "COMPLETED",
               !.doc.completed_at = "date",
               !.dirty = @ \cup {"pgn", "status", "completed_at"}]

\* worker.service.ts:44-46
setCompleted(wr) ==
    [wr EXCEPT !.doc.result = "analysis", !.doc.status = "COMPLETED",
               !.doc.completed_at = "date",
               !.dirty = @ \cup {"result", "status", "completed_at"}]

noCatch(wr) == [wr EXCEPT !.pc = "threw"]

\* worker.service.ts:50-54  the catch block up to its save
catchError(wr) ==
    [wr EXCEPT !.doc.status = "FAILED", !.doc.error = "message",
               !.dirty = @ \cup {"status", "error"}, !.pc = "saveFailed"]

throwMissing(wr) == [wr EXCEPT !.pc = "threw", !.loaded = "missing"]

\* worker.service.ts:14-17  no document: log and return
returnMissing(wr) == [wr EXCEPT !.pc = "done", !.loaded = "missing"]

\* part_005:58  POST /worker/process invokes the worker for an id: a delivery
\* or redelivery of Cloud Tasks, or a request of anyone who has the id
WorkerStart(w, id) ==
    /\ workers[w].pc = "idle"
    /\ w > 1 => workers[w - 1].pc # "idle"
    /\ budget.workers > 0
    /\ id \in Acked \cup {UnknownId}
    /\ workers' = [workers EXCEPT ![w] =
            [IdleWorker EXCEPT !.pc = "find", !.analysisId = id, !.via = "http"]]
    /\ budget' = [budget EXCEPT !.workers = @ - 1]
    /\ UNCHANGED <<probe, useMockQueue, jobs, calls, origin, trace>>

immediatesRepeating == IF useMockQueue THEN Acked ELSE {}

\* part_003:18-22  the callbacks the mock queue has registered with
\* setImmediate and the event loop has not run yet: one per enqueue
immediates ==
    IF useMockQueue
    THEN Acked \ {workers[v].analysisId : v \in {u \in Workers : workers[u].via = "immediate"}}
    ELSE {}

\* part_003:18-19  the event loop runs a callback of setImmediate: it calls
\* processAnalysis; a rejection goes to the .catch of line 19 and is logged
WorkerImmediate(w, id) ==
    /\ workers[w].pc = "idle"
    /\ w > 1 => workers[w - 1].pc # "idle"
    /\ budget.workers > 0
    /\ id \in immediates
    /\ workers' = [workers EXCEPT ![w] =
            [IdleWorker EXCEPT !.pc = "find", !.analysisId = id, !.via = "immediate"]]
    /\ budget' = [budget EXCEPT !.workers = @ - 1]
    /\ UNCHANGED <<probe, useMockQueue, jobs, calls, origin, trace>>

\* worker.service.ts:12-26  findOne resolves; not found or not PENDING
\* returns, a PENDING job is set to PROCESSING and its save begins
WorkerFind(w) ==
    /\ workers[w].pc = "find"
    /\ LET wr == workers[w]
           id == wr.analysisId
       IN  workers' = [workers EXCEPT ![w] =
              IF id \notin DOMAIN jobs
              THEN returnMissing(wr)
              ELSE IF ~isPending(jobs[id].status)
                   THEN [wr EXCEPT !.pc = "done", !.loaded = jobs[id].status]
                   ELSE setProcessing(
                           [wr EXCEPT !.pc = "saveProcessing",
                                      !.loaded = jobs[id].status,
                                      !.doc = jobs[id]])]
    /\ UNCHANGED <<probe, useMockQueue, jobs, calls, origin, trace, budget>>

\* worker.service.ts:12  findOne rejects, outside the try block
WorkerFindFail(w) ==
    /\ workers[w].pc = "find"
    /\ workers' = [workers EXCEPT ![w].pc = "threw"]
    /\ UNCHANGED <<probe, useMockQueue, jobs, calls, origin, trace, budget>>

SaveOkEveryJob(w, nextPc) ==
    LET wr == workers[w]
    IN  /\ jobs' = [id \in DOMAIN jobs |-> saved(jobs[id], wr.doc, wr.dirty)]
        /\ workers' = [workers EXCEPT ![w] =
                [wr EXCEPT !.pc = nextPc, !.dirty = {}, !.saves = @ + 1]]
        /\ UNCHANGED <<probe, useMockQueue, calls, origin, trace, budget>>

\* a save of worker w resolves
SaveOk(w, nextPc) ==
    LET wr == workers[w]
    IN  /\ jobs' = [jobs EXCEPT ![wr.analysisId] = saved(@, wr.doc, wr.dirty)]
        /\ workers' = [workers EXCEPT ![w] =
                [wr EXCEPT !.pc = nextPc, !.dirty = {}, !.saves = @ + 1]]
        /\ UNCHANGED <<probe, useMockQueue, calls, origin, trace, budget>>

\* a save of worker w inside the try block rejects: the catch block runs
SaveFail(w) ==
    /\ workers' = [workers EXCEPT ![w] = catchError(@)]
    /\ UNCHANGED <<probe, useMockQueue, jobs, calls, origin, trace, budget>>

\* worker.service.ts:27
SaveProcessingOk(w) == workers[w].pc = "saveProcessing" /\ SaveOk(w, "model")
SaveProcessingFail(w) == workers[w].pc = "saveProcessing" /\ SaveFail(w)

\* worker.service.ts:30-46  analyzeGame resolves
ModelOk(w) ==
    /\ workers[w].pc = "model"
    /\ workers' = [workers EXCEPT ![w] =
            setCompleted([@ EXCEPT !.pc = "saveCompleted", !.modelCalls = @ + 1])]
    /\ UNCHANGED <<probe, useMockQueue, jobs, calls, origin, trace, budget>>

\* worker.service.ts:30, 50-54  analyzeGame rejects
ModelFail(w) ==
    /\ workers[w].pc = "model"
    /\ workers' = [workers EXCEPT ![w] = catchError([@ EXCEPT !.modelCalls = @ + 1])]
    /\ UNCHANGED <<probe, useMockQueue, jobs, calls, origin, trace, budget>>

\* worker.service.ts:47
SaveCompletedOk(w) == workers[w].pc = "saveCompleted" /\ SaveOk(w, "done")
SaveCompletedFail(w) == workers[w].pc = "saveCompleted" /\ SaveFail(w)

\* worker.service.ts:55
SaveFailedOk(w) == workers[w].pc = "saveFailed" /\ SaveOk(w, "done")

\* worker.service.ts:55  the save of the catch block rejects: processAnalysis
\* rejects
SaveFailedFail(w) ==
    /\ workers[w].pc = "saveFailed"
    /\ workers' = [workers EXCEPT ![w].pc = "threw"]
    /\ UNCHANGED <<probe, useMockQueue, jobs, calls, origin, trace, budget>>

(***************************************************************************)
(* The reads (analysis.service.ts:108-156). A findOne result is the set of *)
(* the documents it found: empty for null.                                 *)
(***************************************************************************)
getAnalysisByIdAnyOwner(analysisId, userId) ==
    {jobs[id] : id \in {i \in DOMAIN jobs : i = analysisId}}

\* analysis.service.ts:108-113
getAnalysisById(analysisId, userId) ==
    {jobs[id] : id \in {i \in DOMAIN jobs :
                            i = analysisId /\ jobs[i].user_id = userId}}

getAnalysesStatusAnyOwner(analysisIds, userId) ==
    [id \in {i \in DOMAIN jobs : i \in analysisIds} |->
        [status |-> jobs[id].status]]

\* analysis.service.ts:118-135  analysisIds is the set of the ids of the array
getAnalysesStatus(analysisIds, userId) ==
    [id \in {i \in DOMAIN jobs : i \in analysisIds /\ jobs[i].user_id = userId} |->
        [status |-> jobs[id].status]]

\* .sort({ created_at: -1 }) of the documents of the ids of S
RECURSIVE sortByCreatedDesc(_)
sortByCreatedDesc(S) ==
    IF S = {} THEN << >>
    ELSE LET newest == CHOOSE i \in S :
                          \A j \in S : jobs[j].created_at <= jobs[i].created_at
         IN  <<jobs[newest]>> \o sortByCreatedDesc(S \ {newest})

\* analysis.service.ts:140-156
getUserAnalyses(userId, page, limit) ==
    LET skip == (page - 1) * limit
        owned == {i \in DOMAIN jobs : jobs[i].user_id = userId}
        sorted == sortByCreatedDesc(owned)
        last == IF skip + limit < Len(sorted) THEN skip + limit ELSE Len(sorted)
    IN  [analyses |-> SubSeq(sorted, skip + 1, last),
         total |-> Cardinality(owned)]

\* part_005:57-73  the answer of POST /worker/process to the queue: 200 when
\* processAnalysis returned, 500 when it rejected, 0 while it runs
routeResponse(wr) ==
    IF wr.pc = "done" THEN 200 ELSE IF wr.pc = "threw" THEN 500 ELSE 0

Next ==
    \/ \E c \in Calls, req \in Requests : BulkStart(c, req)
    \/ \E c \in Calls : DownloadOk(c)
    \/ \E c \in Calls : DownloadFail(c)
    \/ \E c \in Calls : CreateOk(c)
    \/ \E c \in Calls : CreateFail(c)
    \/ \E c \in Calls : EnqueueOk(c)
    \/ \E c \in Calls : EnqueueFail(c)
    \/ \E w \in Workers, id \in Acked \cup {UnknownId} : WorkerStart(w, id)
    \/ \E w \in Workers, id \in Acked : WorkerImmediate(w, id)
    \/ \E w \in Workers : WorkerFind(w)
    \/ \E w \in Workers : WorkerFindFail(w)
    \/ \E w \in Workers : SaveProcessingOk(w)
    \/ \E w \in Workers : SaveProcessingFail(w)
    \/ \E w \in Workers : ModelOk(w)
    \/ \E w \in Workers : ModelFail(w)
    \/ \E w \in Workers : SaveCompletedOk(w)
    \/ \E w \in Workers : SaveCompletedFail(w)
    \/ \E w \in Workers : SaveFailedOk(w)
    \/ \E w \in Workers : SaveFailedFail(w)

Spec == Init /\ [][Next]_vars

(***************************************************************************)
(* The runs in which the document store answers every request of a worker  *)
(* invocation: findOne and save resolve. The event loop resumes every       *)
(* invocation whose await has resolved, and the model call resolves or      *)
(* rejects; nothing obliges the queue or a client to invoke the worker.     *)
(***************************************************************************)
NextLive ==
    \/ \E c \in Calls, req \in Requests : BulkStart(c, req)
    \/ \E c \in Calls : DownloadOk(c)
    \/ \E c \in Calls : DownloadFail(c)
    \/ \E c \in Calls : CreateOk(c)
    \/ \E c \in Calls : CreateFail(c)
    \/ \E c \in Calls : EnqueueOk(c)
    \/ \E c \in Calls : EnqueueFail(c)
    \/ \E w \in Workers, id \in Acked \cup {UnknownId} : WorkerStart(w, id)
    \/ \E w \in Workers, id \in Acked : WorkerImmediate(w, id)
    \/ \E w \in Workers : WorkerFind(w)
    \/ \E w \in Workers : SaveProcessingOk(w)
    \/ \E w \in Workers : ModelOk(w)
    \/ \E w \in Workers : ModelFail(w)
    \/ \E w \in Workers : SaveCompletedOk(w)
    \/ \E w \in Workers : SaveFailedOk(w)

Fairness ==
    \A w \in Workers :
        /\ WF_vars(WorkerFind(w))
        /\ WF_vars(SaveProcessingOk(w))
        /\ WF_vars(ModelOk(w) \/ ModelFail(w))
        /\ WF_vars(SaveCompletedOk(w))
        /\ WF_vars(SaveFailedOk(w))

SpecLive == Init /\ [][NextLive]_vars /\ Fairness

(***************************************************************************)
(* Single applications of determinePlayerColor and of splitPgn to the      *)
(* inputs of bounded sets.                                                 *)
(***************************************************************************)
MaxNameLen == 2
MaxTextLen == 4
MaxGames == 2

Seqs(S, n) == UNION {[1..k -> S] : k \in 0..n}

\* the names of the headers and the names asked for: not empty, in both
\* cases of a letter, with blanks
HeaderNames == Seqs({"a", "B", " "}, MaxNameLen) \ {<< >>}
PlayerNames == Seqs({"A", "b", " "}, MaxNameLen) \ {<< >>}

TagW == Tag(sWhite, <<"a">>)
TagB == Tag(toLowerCase(sBlack), << >>)
TagR == Tag(sResult, <<"1", "-", "0">>)

\* every text of up to MaxTextLen tokens
RawTexts == Seqs({NL, SP, MV, TagW, TagB, TagR}, MaxTextLen)

\* the texts of one game: a header block, then possibly a blank line and the
\* moves; no blank line in them is followed by a header
GameBlocks ==
    {<<TagW, NL, TagB, NL, NL, MV>>,
     <<TagW, NL, NL, MV, NL, MV>>,
     <<TagR, NL, SP, NL, MV, NL, NL, MV>>,
     <<TagB, NL, TagR>>}

\* the blank lines between two games
Separators == {<<NL, NL>>, <<NL, SP, NL>>, <<NL, NL, SP, SP, NL>>}

\* a text of k games: game i is layout[i][1], after the separator layout[i][2]
Layouts == UNION {[1..k -> GameBlocks \X Separators] : k \in 1..MaxGames}

RECURSIVE joinGames(_)
joinGames(layout) ==
    IF Len(layout) = 1 THEN layout[1][1]
    ELSE joinGames(SubSeq(layout, 1, Len(layout) - 1))
            \o layout[Len(layout)][2] \o layout[Len(layout)][1]

blocksOf(layout) == [i \in 1..Len(layout) |-> layout[i][1]]

ColorProbes ==
    {[fn |-> "determinePlayerColor",
      metadata |-> [white |-> w, black |-> b, result |-> sStar],
      playerName |-> n, out |-> {}] :
        w \in HeaderNames, b \in HeaderNames, n \in PlayerNames}

SplitProbes ==
    {[fn |-> "splitPgn", pgnContent |-> t, blocks |-> << >>, out |-> {}] :
        t \in RawTexts}
    \cup
    {[fn |-> "splitPgn", pgnContent |-> joinGames(l), blocks |-> blocksOf(l),
      out |-> {}] : l \in Layouts}

InitPure ==
    /\ useMockQueue = TRUE
    /\ jobs = << >>
    /\ calls = [c \in Calls |-> IdleCall]
    /\ workers = [w \in Workers |-> IdleWorker]
    /\ origin = << >>
    /\ trace = [c \in Calls |-> << >>]
    /\ budget = [calls |-> 0, workers |-> 0]
    /\ probe \in ColorProbes \cup SplitProbes

\* analysis.service.ts:57  determinePlayerColor(game.metadata, playerName)
ApplyDeterminePlayerColor ==
    /\ probe.fn = "determinePlayerColor"
    /\ probe.out = {}
    /\ probe' = [probe EXCEPT
                    !.out = {determinePlayerColor(probe.metadata, probe.playerName)}]
    /\ UNCHANGED <<useMockQueue, jobs, calls, workers, origin, trace, budget>>

\* analysis.service.ts:53  splitPgn(pgnContent)
ApplySplitPgn ==
    /\ probe.fn = "splitPgn"
    /\ probe.out = {}
    /\ probe' = [probe EXCEPT !.out = {splitPgn(probe.pgnContent)}]
    /\ UNCHANGED <<useMockQueue, jobs, calls, workers, origin, trace, budget>>

NextPure == ApplyDeterminePlayerColor \/ ApplySplitPgn

SpecPure == InitPure /\ [][NextPure]_vars

(***************************************************************************)
(* The job status state machine (worker.service.ts).                       *)
(***************************************************************************)
Rank(status) ==
    CASE status = "PENDING" -> 0
      [] status = "PROCESSING" -> 1
      [] status \in {"COMPLETED", "FAILED"} -> 2

Terminal(status) == status \in {"COMPLETED", "FAILED"}

\* C1: in every step and for every job, the stored status does not move
\* backwards along PENDING -> PROCESSING -> {COMPLETED, FAILED}, and a stored
\* COMPLETED or FAILED status does not change any more.
C1_StatusForwardOnly ==
    [][\A id \in DOMAIN jobs :
          /\ Rank(jobs'[id].status) >= Rank(jobs[id].status)
          /\ Terminal(jobs[id].status) => jobs'[id].status = jobs[id].status]_vars

C3_ResultErrorExclusive ==
    \A id \in DOMAIN jobs :
        /\ ~(jobs[id].result # NoVal /\ jobs[id].error # NoVal)
        /\ jobs[id].result # NoVal => jobs[id].status = "COMPLETED"
        /\ jobs[id].error # NoVal => jobs[id].status = "FAILED"

(***************************************************************************)
(* The bulk submission (analysis.service.ts).                              *)
(***************************************************************************)
Started(c) == calls[c].pc # "idle"
Returned(c) == calls[c].pc = "returned"
ResponseOf(c) == CHOOSE r \in calls[c].response : TRUE

\* the games splitPgn yields for each stored file
StoredGames == [p \in DOMAIN Storage |-> splitPgn(Storage[p])]

\* the games of the f-th file of a call
FileGames(cr, f) == StoredGames[cr.urls[f].path]

Resolvable(cr, f, g) ==
    determinePlayerColor(FileGames(cr, f)[g].metadata, cr.playerName) # "null"

\* the positions <<file, game>> of the games of the files 1..n of a call
GamePositions(cr, n) ==
    UNION {{<<f, g>> : g \in 1..Len(FileGames(cr, f))} : f \in 1..n}

RECURSIVE TotalGames(_, _)
TotalGames(cr, n) ==
    IF n = 0 THEN 0 ELSE TotalGames(cr, n - 1) + Len(FileGames(cr, n))

SkipCount(r) == IF r.skipped_games = {} THEN 0
                ELSE Len(CHOOSE x \in r.skipped_games : TRUE)

Before(p, q) == p[1] < q[1] \/ (p[1] = q[1] /\ p[2] < q[2])

PosOf(id) == <<origin[id].file, origin[id].game>>

\* the ids of the records created by call c
CreatedBy(c) == {id \in DOMAIN origin : origin[id].call = c}

EnqueuesOf(c, id) ==
    {i \in 1..Len(trace[c]) : trace[c][i].op = "enqueue" /\ trace[c][i].id = id}

\* C4: the response of a returned call has as many ids plus skip entries as
\* splitPgn yields games over all the files of the call.
C4_CountsAddUp ==
    \A c \in Calls :
        Returned(c) =>
            Len(ResponseOf(c).analysis_ids) + SkipCount(ResponseOf(c))
                = TotalGames(calls[c], Len(calls[c].urls))

C4_Witness ==
    \E c \in Calls :
        /\ Returned(c)
        /\ Len(ResponseOf(c).analysis_ids) >= 2
        /\ SkipCount(ResponseOf(c)) >= 1

\* C5: the ids of a response are in file order and, within a file, in game
\* order: of two ids the earlier one is of an earlier file, or of the same
\* file and an earlier game.
C5_IdsInFileThenGameOrder ==
    \A c \in Calls :
        Returned(c) =>
            LET ids == ResponseOf(c).analysis_ids
            IN  /\ \A i \in 1..Len(ids) : ids[i] \in CreatedBy(c)
                /\ \A i, j \in 1..Len(ids) :
                      i < j => Before(PosOf(ids[i]), PosOf(ids[j]))

C5_Witness ==
    \E c \in Calls :
        /\ Returned(c)
        /\ LET ids == ResponseOf(c).analysis_ids
           IN  \E i, j \in 1..Len(ids) :
                  /\ i < j
                  /\ origin[ids[i]].file < origin[ids[j]].file

\* C6: the requests of a call are create(id1), enqueue(id1), create(id2),
\* enqueue(id2), ...: each record is created once, its dispatch is requested
\* once, for its id, right after its creation and before the next game; when
\* the call has returned, every resolvable game has exactly one record.
C6_OneRecordOneDispatchInOrder ==
    \A c \in Calls :
        LET t == trace[c]
        IN  /\ \A i \in 1..Len(t) :
                  IF i % 2 = 1
                  THEN /\ t[i].op = "create"
                       /\ t[i].id \in CreatedBy(c)
                       /\ \A j \in 1..(i - 1) : t[j].op = "create" =>
                             /\ t[j].id # t[i].id
                             /\ Before(PosOf(t[j].id), PosOf(t[i].id))
                  ELSE /\ t[i].op = "enqueue"
                       /\ t[i].id = t[i - 1].id
                       /\ t[i].id \in DOMAIN jobs
            /\ \A id \in CreatedBy(c) :
                  /\ \E i \in 1..Len(t) : t[i].op = "create" /\ t[i].id = id
                  /\ Cardinality(EnqueuesOf(c, id)) <= 1
            /\ Returned(c) =>
                  /\ \A id \in CreatedBy(c) : Cardinality(EnqueuesOf(c, id)) = 1
                  /\ \A p \in GamePositions(calls[c], Len(calls[c].urls)) :
                        Cardinality({id \in CreatedBy(c) : PosOf(id) = p})
                            = IF Resolvable(calls[c], p[1], p[2]) THEN 1 ELSE 0

C6_Witness ==
    \E c \in Calls :
        /\ Returned(c)
        /\ Len(trace[c]) >= 4
        /\ Cardinality(CreatedBy(c)) >= 2

\* the skip entries due for a list of games, in game order
RECURSIVE SkipsDue(_, _)
SkipsDue(games, playerName) ==
    IF games = << >> THEN << >>
    ELSE (IF determinePlayerColor(Head(games).metadata, playerName) = "null"
          THEN <<[white |-> Head(games).metadata.white,
                  black |-> Head(games).metadata.black,
                  reason |-> <<"not found", playerName>>]>>
          ELSE << >>) \o SkipsDue(Tail(games), playerName)

RECURSIVE SkipsDueUpTo(_, _)
SkipsDueUpTo(cr, n) ==
    IF n = 0 THEN << >>
    ELSE SkipsDueUpTo(cr, n - 1) \o SkipsDue(FileGames(cr, n), cr.playerName)

SkippedOf(r) == IF r.skipped_games = {} THEN << >>
                ELSE CHOOSE x \in r.skipped_games : TRUE

UnmatchedAccounted ==
    \A c \in Calls :
        /\ \A id \in CreatedBy(c) :
              Resolvable(calls[c], origin[id].file, origin[id].game)
        /\ \A i \in 1..Len(trace[c]) : trace[c][i].id \in CreatedBy(c)
        /\ Returned(c) =>
              SkippedOf(ResponseOf(c)) = SkipsDueUpTo(calls[c], Len(calls[c].urls))

\* C7: a record is created only for a game in which the player was matched,
\* with status PENDING and player_color white or black, the colour the
\* resolver gives; an unmatched game has no record and no dispatch, and the
\* response lists one skip entry per unmatched game, with its white and
\* black names and the reason.
C7_NoRecordForUnmatchedGame ==
    /\ [][\A id \in DOMAIN jobs' \ DOMAIN jobs :
             /\ jobs'[id].status = "PENDING"
             /\ jobs'[id].player_color \in {"white", "black"}
             /\ jobs'[id].player_color =
                   determinePlayerColor(jobs'[id].metadata, jobs'[id].player_name)]_vars
    /\ []UnmatchedAccounted

C7_Witness ==
    \E c \in Calls :
        /\ Returned(c)
        /\ Len(SkippedOf(ResponseOf(c))) >= 1
        /\ \E id \in CreatedBy(c) : jobs[id].player_color = "black"
        /\ \E id \in CreatedBy(c) : jobs[id].player_color = "white"

\* C8: every record created by a call carries the batch id of that call, the
\* one its response returns, and no record of another call carries it.
C8_OneBatchIdPerCall ==
    \A c \in Calls :
        /\ \A id \in CreatedBy(c) : jobs[id].batch_id = calls[c].batchId
        /\ Returned(c) => ResponseOf(c).batch_id = calls[c].batchId
        /\ \A id \in DOMAIN jobs :
              (Started(c) /\ jobs[id].batch_id = calls[c].batchId) =>
                  origin[id].call = c

C8_Witness ==
    \E c1, c2 \in Calls :
        /\ c1 # c2
        /\ Returned(c1)
        /\ Cardinality(CreatedBy(c1)) >= 2
        /\ Cardinality(CreatedBy(c2)) >= 1

\* the records of call c for the resolvable games of its files 1..n are
\* stored, one per game, each with an acknowledged dispatch
CommittedUpTo(c, n) ==
    \A p \in GamePositions(calls[c], n) :
        Resolvable(calls[c], p[1], p[2]) =>
            \E id \in CreatedBy(c) :
                /\ PosOf(id) = p
                /\ id \in DOMAIN jobs
                /\ id \in Acked

\* C9: when the retrieval of the k-th file of a call has failed, the call
\* has thrown and has no response, no record and no dispatch request is of
\* its k-th or a later file, and the records of the files before the k-th
\* are all stored and dispatched.
C9_DownloadFailureAborts ==
    \A c \in Calls :
        calls[c].failed = "download" =>
            /\ calls[c].pc = "threw"
            /\ calls[c].response = {}
            /\ \A id \in CreatedBy(c) : origin[id].file < calls[c].fi
            /\ \A i \in 1..Len(trace[c]) : trace[c][i].id \in CreatedBy(c)
            /\ CommittedUpTo(c, calls[c].fi - 1)

C9_Witness ==
    \E c \in Calls :
        /\ calls[c].failed = "download"
        /\ calls[c].fi = 2
        /\ Cardinality(CreatedBy(c)) >= 2

\* C10: when the dispatch request for a job of a call has failed, the call
\* has thrown and has no response, the record of that job is stored with
\* status PENDING and was dispatched by one request only, the failed one,
\* and no record of the call is of a later game.
C10_EnqueueFailureLeavesPending ==
    \A c \in Calls :
        calls[c].failed = "enqueue" =>
            LET id == calls[c].analysisId
                t == trace[c]
            IN  /\ calls[c].pc = "threw"
                /\ calls[c].response = {}
                /\ id \in DOMAIN jobs
                /\ jobs[id].status = "PENDING"
                /\ jobs[id].result = NoVal /\ jobs[id].error = NoVal
                /\ EnqueuesOf(c, id) = {Len(t)}
                /\ ~t[Len(t)].ok
                /\ \A other \in CreatedBy(c) \ {id} : Before(PosOf(other), PosOf(id))

C10_Witness ==
    \E c \in Calls, w \in Workers :
        /\ calls[c].failed = "enqueue"
        /\ Cardinality(CreatedBy(c)) >= 2
        /\ workers[w].pc = "done"
        /\ workers[w].saves >= 2


(***************************************************************************)
(* Failures inside processAnalysis (worker.service.ts, part_005).          *)
(***************************************************************************)
\* the invocation called the model and the call threw: the in-memory document
\* got no result (worker.service.ts:30, 44, 50)
ModelThrew(w) ==
    /\ workers[w].modelCalls > 0
    /\ workers[w].doc.result = NoVal
    /\ workers[w].pc \in {"saveFailed", "done", "threw"}

\* C11: when an invocation that loaded the job PENDING and whose model call
\* threw completes the save of its catch block, the stored job has status
\* FAILED, a failure reason in error, and no result.
C11_ModelFailureStoresFailedOnly ==
    [][\A w \in Workers :
          (/\ ModelThrew(w)
           /\ workers[w].pc = "saveFailed"
           /\ workers'[w].pc = "done") =>
              /\ jobs'[workers[w].analysisId].status = "FAILED"
              /\ jobs'[workers[w].analysisId].error # NoVal
              /\ jobs'[workers[w].analysisId].result = NoVal]_vars

\* C12 as stated: an invocation that loaded its job never rejects, so the
\* callback endpoint never answers 500 for it.
C12_FailureNeverPropagates ==
    \A w \in Workers :
        workers[w].loaded # NoVal => routeResponse(workers[w]) # 500

\* C12: every failure of a step of the try block (the save of PROCESSING, the
\* model call, the save of the result) enters the catch block; when the save
\* of the catch block resolves, processAnalysis returns with the job stored
\* FAILED with a reason and the endpoint answers 200; when that save rejects,
\* it stores nothing, processAnalysis rejects and the endpoint answers 500.
C12_FailureRecoveredUnlessFailedSaveRejects ==
    [][\A w \in Workers :
          LET pc == workers[w].pc
              pcNext == workers'[w].pc
              id == workers[w].analysisId
          IN  /\ pc = "saveProcessing" => pcNext \in {pc, "model", "saveFailed"}
              /\ pc = "model" => pcNext \in {pc, "saveCompleted", "saveFailed"}
              /\ pc = "saveCompleted" => pcNext \in {pc, "done", "saveFailed"}
              /\ (pc = "saveFailed" /\ pcNext = "done") =>
                    /\ jobs'[id].status = "FAILED"
                    /\ jobs'[id].error # NoVal
                    /\ routeResponse(workers'[w]) = 200
              /\ (pc = "saveFailed" /\ pcNext = "threw") =>
                    /\ jobs' = jobs
                    /\ routeResponse(workers'[w]) = 500]_vars

\* one invocation recovered from a failure and returned; another one, for the
\* same job, had the save of its catch block rejected
C12_Witness ==
    \E w1, w2 \in Workers :
        /\ workers[w1].loaded = "PENDING" /\ workers[w2].loaded = "PENDING"
        /\ workers[w1].pc = "done" /\ workers[w1].doc.status = "FAILED"
        /\ jobs[workers[w1].analysisId].status = "FAILED"
        /\ jobs[workers[w1].analysisId].error # NoVal
        /\ workers[w2].pc = "threw"
        /\ routeResponse(workers[w2]) = 500

\* C13: an invocation for an id that names no record has returned without
\* error (the endpoint answers 200), has saved nothing, has not called the
\* model, and no record of that id exists.
C13_MissingJobNoEffect ==
    \A w \in Workers :
        workers[w].loaded = "missing" =>
            /\ workers[w].pc = "done"
            /\ routeResponse(workers[w]) = 200
            /\ workers[w].saves = 0
            /\ workers[w].dirty = {}
            /\ workers[w].modelCalls = 0
            /\ workers[w].analysisId \notin DOMAIN jobs

\* an invocation for an unknown id returned while a job was stored
C13_Witness ==
    \E w \in Workers :
        /\ workers[w].loaded = "missing"
        /\ workers[w].pc = "done"
        /\ workers[w].analysisId = UnknownId
        /\ \E id \in DOMAIN jobs : jobs[id].status = "PENDING"

\* the fields Analysis.create is given for the job, from the submission that
\* created it
CreationFields ==
    {"analysis_id", "user_id", "batch_id", "pgn", "gcs_url", "player_name",
     "player_color", "metadata"}

CreatedAs(id) ==
    LET o == origin[id]
        cr == calls[o.call]
        game == FileGames(cr, o.file)[o.game]
    IN  [analysis_id |-> id, user_id |-> cr.userId, batch_id |-> cr.batchId,
         pgn |-> game.pgn, gcs_url |-> cr.urls[o.file],
         player_name |-> cr.playerName,
         player_color |-> determinePlayerColor(game.metadata, cr.playerName),
         metadata |-> game.metadata]

\* C14: every stored job with status COMPLETED or FAILED has, in analysis_id,
\* user_id, batch_id, pgn, gcs_url, player_name, player_color and metadata,
\* the values it was created with.
C14_WorkerKeepsCreationFields ==
    \A id \in DOMAIN jobs :
        Terminal(jobs[id].status) =>
            \A f \in CreationFields : jobs[id][f] = CreatedAs(id)[f]

\* a job was completed by one invocation and another job of the same
\* submission failed
C14_Witness ==
    \E id1, id2 \in DOMAIN jobs :
        /\ jobs[id1].status = "COMPLETED" /\ jobs[id1].result # NoVal
        /\ jobs[id2].status = "FAILED" /\ jobs[id2].error # NoVal
        /\ jobs[id1].pgn # jobs[id2].pgn

(***************************************************************************)
(* The reads (analysis.service.ts).                                        *)
(***************************************************************************)
\* the user ids a read is made with
UserIds == {userIdOf(reqUser(cl)) : cl \in Clients}

\* the sets of ids a status query asks for: stored ids and an unknown one
IdSets == SUBSET (DOMAIN jobs \cup {UnknownId})

\* C15 as stated: the keys of the mapping getAnalysesStatus returns are
\* exactly the requested ids.
C15_KeysAreRequestedIds ==
    \A u \in UserIds : \A ids \in SUBSET (DOMAIN jobs) :
        DOMAIN getAnalysesStatus(ids, u) = ids

\* C15: for every requester and every set of requested ids, the keys of the
\* mapping getAnalysesStatus returns are exactly the requested ids that name
\* a stored job owned by the requester, and each key is mapped to a record
\* that holds the stored status of that job and nothing else.
C15_KeysAreRequestedOwnedIds ==
    \A u \in UserIds : \A ids \in IdSets :
        LET r == getAnalysesStatus(ids, u)
        IN  /\ \A id \in ids :
                 id \in DOMAIN r <=> (id \in DOMAIN jobs /\ jobs[id].user_id = u)
            /\ \A id \in DOMAIN r :
                 /\ id \in ids
                 /\ DOMAIN r[id] = {"status"}
                 /\ r[id].status = jobs[id].status

\* two jobs of one owner are stored as PROCESSING and COMPLETED: their owner
\* gets both statuses, and not the unknown id; another requester gets nothing
C15_Witness ==
    \E id1, id2 \in DOMAIN jobs : \E u \in UserIds :
        /\ jobs[id1].status = "PROCESSING"
        /\ jobs[id2].status = "COMPLETED"
        /\ DOMAIN getAnalysesStatus({id1, id2, UnknownId}, jobs[id1].user_id)
                = {id1, id2}
        /\ DOMAIN getAnalysesStatus({id1, id2}, u) = {}

(***************************************************************************)
(* determinePlayerColor (analysis.service.ts:18-33).                       *)
(***************************************************************************)
Applied(fn) == probe.fn = fn /\ probe.out # {}
Out == CHOOSE r \in probe.out : TRUE

\* lower case without the blanks at both ends
Norm(s) == trim(toLowerCase(s))

\* a is a contiguous part of b
PartOf(a, b) ==
    \E i \in 0..(Len(b) - Len(a)) :
        \A k \in 1..Len(a) : b[i + k] = a[k]

\* the name asked for matches the name of a header: one is a part of the
\* other, case and surrounding blanks aside
Matches(name, header) ==
    PartOf(Norm(name), Norm(header)) \/ PartOf(Norm(header), Norm(name))

\* C16 as stated: white for a name that matches the white name only, black
\* for a name that matches the black name only, no match for all other names.
C16_ColorOrNullOtherwise ==
    Applied("determinePlayerColor") =>
        LET mw == Matches(probe.playerName, probe.metadata.white)
            mb == Matches(probe.playerName, probe.metadata.black)
        IN  Out = (IF mw /\ ~mb THEN "white"
                   ELSE IF mb /\ ~mw THEN "black" ELSE "null")

\* C16: white for a name that matches the white name only, black for a name
\* that matches the black name only, no match for a name that matches neither,
\* and white for a name that matches both.
C16_ColorWhiteOnBoth ==
    Applied("determinePlayerColor") =>
        LET mw == Matches(probe.playerName, probe.metadata.white)
            mb == Matches(probe.playerName, probe.metadata.black)
        IN  /\ (mw /\ ~mb) => Out = "white"
            /\ (mb /\ ~mw) => Out = "black"
            /\ (~mw /\ ~mb) => Out = "null"
            /\ (mw /\ mb) => Out = "white"

\* a name in another case and with a blank matched the black name only
C16_Witness ==
    /\ Applied("determinePlayerColor")
    /\ probe.playerName = <<" ", "b">>
    /\ probe.metadata.black = <<"a", "B">>
    /\ probe.metadata.white = <<"a", " ">>
    /\ Out = "black"

(***************************************************************************)
(* splitPgn (part_003:82-124).                                             *)
(***************************************************************************)
\* C17: applied to a text of N games, each a header block with its moves and
\* no blank line followed by a header inside it, the games separated by blank
\* lines, splitPgn returns N games, the i-th with the text of the i-th game,
\* which is not empty.
C17_OneGamePerHeaderBlock ==
    (Applied("splitPgn") /\ probe.blocks # << >>) =>
        /\ Len(Out) = Len(probe.blocks)
        /\ \A i \in 1..Len(Out) :
              /\ Out[i].pgn = probe.blocks[i]
              /\ Out[i].pgn # << >>

\* a text of two different games, the first with a blank line before its
\* moves, was split in two
C17_Witness ==
    /\ Applied("splitPgn")
    /\ Len(probe.blocks) = 2
    /\ probe.blocks[1] = <<TagW, NL, TagB, NL, NL, MV>>
    /\ probe.blocks[2] = <<TagB, NL, TagR>>
    /\ Len(Out) = 2

\* C18 as stated: splitPgn returns at least one game for every text, each
\* with white, black and result set.
C18_AtLeastOneGame ==
    Applied("splitPgn") =>
        /\ Len(Out) >= 1
        /\ \A i \in 1..Len(Out) :
              /\ Out[i].metadata.white # << >>
              /\ Out[i].metadata.black # << >>
              /\ Out[i].metadata.result # << >>

\* the values of the headers of a name in a text, case of the name aside
TagValues(pgn, name) ==
    {pgn[k].v : k \in {j \in 1..Len(pgn) :
        pgn[j].k = "tag" /\ toLowerCase(pgn[j].name) = toLowerCase(name)}}

\* a field of the metadata is set: to a value of the header, or to dflt
IsSet(v, pgn, name, dflt) ==
    v # << >> /\ (v = dflt \/ v \in TagValues(pgn, name))

\* C18: splitPgn returns at least one game for every text that holds more
\* than white space, and no game for an empty or white-space-only text; every
\* game returned has white, black and result set, to a value of the header
\* in its text or to Unknown, Unknown, *.
C18_AtLeastOneGameUnlessBlank ==
    Applied("splitPgn") =>
        /\ (\E k \in 1..Len(probe.pgnContent) : ~IsWs(probe.pgnContent[k]))
                => Len(Out) >= 1
        /\ (\A k \in 1..Len(probe.pgnContent) : IsWs(probe.pgnContent[k]))
                => Out = << >>
        /\ \A i \in 1..Len(Out) :
              /\ IsSet(Out[i].metadata.white, Out[i].pgn, sWhite, sUnknown)
              /\ IsSet(Out[i].metadata.black, Out[i].pgn, sBlack, sUnknown)
              /\ IsSet(Out[i].metadata.result, Out[i].pgn, sResult, sStar)

\* a text with a White header, an empty Black header and no Result header
\* gave one game with the parsed white name and the two defaults
C18_Witness ==
    /\ Applied("splitPgn")
    /\ probe.pgnContent = <<SP, TagW, NL, TagB>>
    /\ Len(Out) = 1
    /\ Out[1].metadata = [white |-> <<"a">>, black |-> sUnknown, result |-> sStar]

\* the pages and page sizes a listing is asked with
MaxPage == 2
MaxLimit == 2

\* C19: for every requester identity u, getAnalysisById returns the job of the
\* id when its user_id is u and nothing otherwise, getAnalysesStatus reports
\* only jobs whose user_id is u, every page of getUserAnalyses holds only jobs
\* whose user_id is u and counts exactly those; and in every state the user_id
\* of a job is the identity of the submission that created it.
C19_ReadsFilteredByOwner ==
    /\ \A u \in UserIds :
          /\ \A id \in DOMAIN jobs \cup {UnknownId} :
                getAnalysisById(id, u) =
                    IF id \in DOMAIN jobs /\ jobs[id].user_id = u
                    THEN {jobs[id]} ELSE {}
          /\ \A ids \in IdSets :
                \A id \in DOMAIN getAnalysesStatus(ids, u) : jobs[id].user_id = u
          /\ \A page \in 1..MaxPage, limit \in 1..MaxLimit :
                LET r == getUserAnalyses(u, page, limit)
                IN  /\ \A k \in 1..Len(r.analyses) : r.analyses[k].user_id = u
                    /\ r.total =
                         Cardinality({id \in DOMAIN jobs : jobs[id].user_id = u})
    /\ \A id \in DOMAIN jobs :
          jobs[id].user_id = userIdOf(reqUser(calls[origin[id].call].client))

\* jobs of u1 and of a guest are stored: the guest identity does not get the
\* job of u1 by id, and the first page of u1 holds the two jobs of u1, the
\* newest first
C19_Witness ==
    \E id1, id2, id3 \in DOMAIN jobs :
        /\ jobs[id1].user_id = "u1" /\ jobs[id2].user_id = "u1"
        /\ jobs[id3].user_id = "guest"
        /\ jobs[id1].created_at < jobs[id2].created_at
        /\ getAnalysisById(id1, "guest") = {}
        /\ getAnalysisById(id1, "u1") = {jobs[id1]}
        /\ getUserAnalyses("u1", 1, 2).analyses = <<jobs[id2], jobs[id1]>>

\* the client whose submission created the job
CreatorOf(id) == calls[origin[id].call].client

\* C20: a by-id query or a status query of a client without a token never
\* returns a job created by another client without a token.
C20_GuestReadsOwnOnly ==
    \A reader \in Clients \ Authenticated : \A id \in DOMAIN jobs :
        (CreatorOf(id) \notin Authenticated /\ CreatorOf(id) # reader) =>
            /\ getAnalysisById(id, userIdOf(reqUser(reader))) = {}
            /\ id \notin DOMAIN getAnalysesStatus({id}, userIdOf(reqUser(reader)))

(***************************************************************************)
(* Duplicate delivery (worker.service.ts:12-41).                           *)
(***************************************************************************)
\* C21: every invocation that loaded its job as PENDING passed the guard,
\* whatever other invocations for the same id did meanwhile: it set PROCESSING
\* on its document and went on to save it, it never returned without a save,
\* and once its save of PROCESSING resolved it called the model itself.
C21_GuardPassedByEveryPendingLoad ==
    \A w \in Workers :
        workers[w].loaded = "PENDING" =>
            /\ workers[w].pc \in {"saveProcessing", "model", "saveCompleted",
                                  "saveFailed", "done", "threw"}
            /\ workers[w].doc.status \in {"PROCESSING", "COMPLETED", "FAILED"}
            /\ workers[w].pc = "done" => workers[w].saves >= 1
            /\ workers[w].pc = "saveCompleted" => workers[w].modelCalls = 1

\* two invocations for one job both loaded it as PENDING and both called the
\* model
C21_Witness ==
    \E w1, w2 \in Workers :
        /\ w1 # w2
        /\ workers[w1].analysisId = workers[w2].analysisId
        /\ workers[w1].loaded = "PENDING" /\ workers[w2].loaded = "PENDING"
        /\ workers[w1].modelCalls = 1 /\ workers[w2].modelCalls = 1

\* the invocations for the job whose save wrote a completion time: they set
\* completed_at on the document they loaded and a later save of theirs resolved
CompletedAtWriters(id) ==
    {w \in Workers :
        /\ workers[w].analysisId = id
        /\ workers[w].loaded = "PENDING"
        /\ workers[w].doc.completed_at # NoVal
        /\ workers[w].pc = "done"}

\* C22: for every job, at most one save has written completed_at, and a stored
\* record has completed_at only when its stored status is COMPLETED.
C22_CompletedAtOnlyWithCompleted ==
    \A id \in DOMAIN jobs :
        /\ Cardinality(CompletedAtWriters(id)) <= 1
        /\ jobs[id].completed_at # NoVal => jobs[id].status = "COMPLETED"

(***************************************************************************)
(* The mock queue (part_003:14-31).                                        *)
(***************************************************************************)
\* the positions of the acknowledged enqueues in the history of a call
AckedAt(tr) == {k \in 1..Len(tr) : tr[k].op = "enqueue" /\ tr[k].ok}

C24_NoThrowWhiteOnTie ==
    Applied("determinePlayerColor") =>
        /\ Out \in {"white", "black", "null"}
        /\ (/\ Matches(probe.playerName, probe.metadata.white)
            /\ Matches(probe.playerName, probe.metadata.black)) => Out = "white"

\* a name that both header names contain gave white; the black name comes
\* first in no sense but the order of the tests
C24_Witness ==
    /\ Applied("determinePlayerColor")
    /\ probe.playerName = <<"A">>
    /\ probe.metadata.white = <<"B", "a">>
    /\ probe.metadata.black = <<"a">>
    /\ Out = "white"

(***************************************************************************)
(* Independence of the jobs (worker.service.ts:9-57).                      *)
(***************************************************************************)
\* C25: in every step, a stored job changes only by a save of an invocation
\* for that job's own id: no step of an invocation for job A changes the
\* record of another job B.
C25_JobsIndependent ==
    [][\A id \in DOMAIN jobs :
          jobs'[id] # jobs[id] =>
              \E w \in Workers :
                  /\ workers[w].analysisId = id
                  /\ workers'[w].saves = workers[w].saves + 1
                  /\ \A v \in Workers \ {w} : workers'[v] = workers[v]]_vars

\* two jobs of one submission were processed by two invocations: one is
\* COMPLETED and the other, whose model call threw, is FAILED without a result
C25_Witness ==
    \E w1, w2 \in Workers :
        /\ workers[w1].analysisId # workers[w2].analysisId
        /\ workers[w1].pc = "done" /\ workers[w2].pc = "done"
        /\ workers[w1].analysisId \in DOMAIN jobs
        /\ workers[w2].analysisId \in DOMAIN jobs
        /\ jobs[workers[w1].analysisId].status = "COMPLETED"
        /\ jobs[workers[w2].analysisId].status = "FAILED"
        /\ jobs[workers[w2].analysisId].result = NoVal

(***************************************************************************)
(* Interleaved submissions (analysis.service.ts:38-103).                   *)
(***************************************************************************)
IdsOf(c) ==
    {ResponseOf(c).analysis_ids[k] : k \in 1..Len(ResponseOf(c).analysis_ids)}

\* C26: the response of every returned call has the batch id drawn by that
\* call, its analysis_ids are exactly the jobs that call created, each stored
\* with that batch id, the owner and the subject name of the call, and its
\* skip entries are those of the games of its own files; two returned calls
\* have different batch ids and disjoint analysis_ids.
C26_CallsShareNothing ==
    /\ \A c \in Calls :
          Returned(c) =>
              /\ ResponseOf(c).batch_id = calls[c].batchId
              /\ IdsOf(c) = CreatedBy(c)
              /\ \A id \in IdsOf(c) :
                    /\ jobs[id].batch_id = ResponseOf(c).batch_id
                    /\ jobs[id].user_id = calls[c].userId
                    /\ jobs[id].player_name = calls[c].playerName
              /\ SkippedOf(ResponseOf(c)) =
                    SkipsDueUpTo(calls[c], Len(calls[c].urls))
    /\ \A c1, c2 \in Calls :
          (c1 # c2 /\ Returned(c1) /\ Returned(c2)) =>
              /\ ResponseOf(c1).batch_id # ResponseOf(c2).batch_id
              /\ IdsOf(c1) \cap IdsOf(c2) = {}

\* two calls of different owners and subject names returned, each with a
\* skipped game, after a job of the second was created between two jobs of
\* the first
C26_Witness ==
    \E c1, c2 \in Calls :
        /\ Returned(c1) /\ Returned(c2)
        /\ calls[c1].userId # calls[c2].userId
        /\ calls[c1].playerName # calls[c2].playerName
        /\ SkipCount(ResponseOf(c1)) >= 1 /\ SkipCount(ResponseOf(c2)) >= 1
        /\ \E a, b \in IdsOf(c1) : \E x \in IdsOf(c2) :
              /\ jobs[a].created_at < jobs[x].created_at
              /\ jobs[x].created_at < jobs[b].created_at

(***************************************************************************)
(* The validity check (part_003:129-136).                                  *)
(***************************************************************************)
\* C27: no record is stored, and no dispatch is requested, for a game block
\* that fails isValidPgn.
C27_NoJobForInvalidBlock ==
    /\ \A id \in DOMAIN jobs : isValidPgn(jobs[id].pgn)
    /\ \A c \in Calls : \A k \in 1..Len(trace[c]) :
          trace[c][k].op = "enqueue" =>
              isValidPgn(FileGames(calls[c], origin[trace[c][k].id].file)
                            [origin[trace[c][k].id].game].pgn)

(***************************************************************************)
(* Termination of a job (worker.service.ts:9-57).                          *)
(***************************************************************************)
\* the job of the invocation is stored with status COMPLETED or FAILED
JobTerminal(w) ==
    /\ workers[w].analysisId \in DOMAIN jobs
    /\ Terminal(jobs[workers[w].analysisId].status)

StoppedInProcessing(w) ==
    /\ workers[w].pc = "threw"
    /\ workers[w].loaded = "PENDING"
    /\ workers[w].saves = 1

\* C29: once an invocation has stopped between its save of PROCESSING and a
\* save of a terminal status, its job is stored as PROCESSING and stays so,
\* and every invocation that reads the job from then on returns at the
\* guard without a write and is answered 200.
C29_StoppedJobStaysProcessing ==
    /\ [](\A w \in Workers :
            StoppedInProcessing(w) =>
                jobs[workers[w].analysisId].status = "PROCESSING")
    /\ [][\A w \in Workers :
            StoppedInProcessing(w) =>
                /\ jobs'[workers[w].analysisId] = jobs[workers[w].analysisId]
                /\ \A v \in Workers :
                      (/\ workers[v].analysisId = workers[w].analysisId
                       /\ workers[v].pc = "find"
                       /\ workers'[v].loaded # NoVal) =>
                            /\ workers'[v].loaded = "PROCESSING"
                            /\ routeResponse(workers'[v]) = 200]_vars

(***************************************************************************)
(* The ids a submission reports (analysis.service.ts:71-102, 337-359).     *)
(***************************************************************************)
\* the ids in the analysis_ids list of call c and in its response
ListedBy(c) ==
    {calls[c].analysisIds[i] : i \in 1..Len(calls[c].analysisIds)}
        \cup UNION {{r.analysis_ids[i] : i \in 1..Len(r.analysis_ids)} :
                        r \in calls[c].response}

====
